---- MODULE Spec2Model ----
(***************************************************************************)
(* Layout engine of the alluvial chart (AlluvialChart, alluvial_chart.py). *)
(* The constructor runs make_nodes, make_lines, make_subnodes in sequence; *)
(* each is one action.  Coordinates on the unit grid are exact: the source   *)
(* computes them in binary floating point, whose rounding is not modelled. *)
(***************************************************************************)
EXTENDS Integers, Sequences, FiniteSets, TLC

\* ------------------------------------------------------------------ bounds
MaxCats == 4
MaxLines == 3
MaxNodes == 2
MaxSubnodes == 2
\* nodes declared beyond one per category, over the whole chart
MaxExtraNodes == 1
\* nodes of the one wide category of the node-sizing charts
MaxWideNodes == 4
\* constructions in a row on the same input objects
MaxRuns == 2

\* ------------------------------------------------------- exact arithmetic
\* A coordinate is the integer number of 1/Scale units it measures; Scale is
\* divisible by every denominator the layout produces, which Div checks.
RECURSIVE GCD(_, _)
GCD(a, b) == IF b = 0 THEN a ELSE GCD(b, a % b)
Lcm(a, b) == (a * b) \div GCD(a, b)
RECURSIVE LcmUpTo(_)
LcmUpTo(n) == IF n <= 1 THEN 1 ELSE Lcm(n, LcmUpTo(n - 1))
Max(a, b) == IF a >= b THEN a ELSE b

Scale == 4000 * LcmUpTo(Max(MaxLines, MaxCats))
\* the number 1
One == Scale

\* exact quotient a / b: undefined (an evaluation error) when b does not divide a
Div(a, b) == CHOOSE q \in {a \div b} : q * b = a
\* the fraction n / d as a coordinate
Frac(n, d) == Div(n * Scale, d)
\* v times the ratio r = <<numerator, denominator>>
TimesRatio(v, r) == Div(v * r[1], r[2])

RECURSIVE Sum(_)
Sum(s) == IF s = <<>> THEN 0 ELSE s[1] + Sum(Tail(s))

\* ------------------------------------------------- constructor defaults
NodesXShareDefault == Frac(3, 10)
NodeMinYExtendDefault == Frac(1, 100)
NodeSeparationDefault == Frac(1, 20)
StraightLineOutsideNodeDefault == Frac(1, 20)
\* share of the node space used for lines (the rest is buffer): 0.9
LineSpaceShare == <<9, 10>>
\* relative size of a subnode inside its node and its slot spacing: 0.9
SubnodeRelSize == <<9, 10>>
\* the None of a subnode's "y" or "height"
\* a value no coordinate takes
None == 0 - 1073741823

\* ------------------------------------------------------------------ state
VARIABLES
    \* inputs (constructor arguments)
    node_data,          \* category -> node -> [has_subnodes, subnodes]
    line_data,          \* line id -> category -> [node, subnode] (subnode 0: no tag)
    sorted_category,    \* 0 for None, else a category index
    plot_id,
    extend_lines_into_outside_nodes,
    nodes_x_share,
    node_min_y_extend,
    node_separation,
    straight_line_outside_node,
    line_color_mode,
    \* the chart object
    node_details,       \* category -> node -> [x, width, y, height]
    line_segments,      \* line id -> sequence of segments
    line_y_positions,   \* insertion-ordered dict: sequence of [category, slots]
    line_spacing,       \* insertion-ordered dict: sequence of [category, spacing]
    subnodes,           \* category -> node -> sequence of SubNode records
    line_color,         \* line id -> color of its AgglutinatedLine
    pc,                 \* position inside __init__
    err,                \* name of the exception raised, "" if none
    \* successive constructions on the same input objects
    run,                \* number of the construction under way
    previous            \* the chart the construction before left, <<>> if none

inputs == <<node_data, line_data, sorted_category, plot_id,
            extend_lines_into_outside_nodes, nodes_x_share, node_min_y_extend,
            node_separation, straight_line_outside_node, line_color_mode>>
chart == <<node_details, line_segments, line_y_positions, line_spacing, subnodes,
           line_color>>
vars == <<inputs, chart, pc, err, run, previous>>

NumCats == Len(node_data)
Cats == 1..NumCats
NumLines == Len(line_data)
LineIds == 1..NumLines
NumNodes(c) == Len(node_data[c])

\* ------------------------------------------------------------ make_nodes
\* x of category c (enumerate index i = c - 1) and the common node width
XSpacing == Div(One - nodes_x_share, NumCats - 1)
NodeWidth == Div(nodes_x_share, NumCats)
NodeX(c) == (c - 1) * (NodeWidth + XSpacing)

\* number of lines going through node j of category c
NodeCount(c, j) == Cardinality({l \in LineIds : line_data[l][c].node = j})
TotalCount(c) == NumLines

YSpaceTakenByDefault(c) ==
    NumNodes(c) * node_min_y_extend + (NumNodes(c) - 1) * node_separation
\* variant: the gaps between the nodes are not taken out of the budget
YSpaceWithoutSeparation(c) == One - NumNodes(c) * node_min_y_extend
YSpaceDistributed(c) == One - YSpaceTakenByDefault(c)

\* variant: the proportional share alone, no minimum added
NodeHeightShareOnly(c, j) ==
    IF TotalCount(c) > 0
    THEN Div(NodeCount(c, j) * YSpaceDistributed(c), TotalCount(c))
    ELSE 0

\* variant: a node without lines collapses to height 0
NodeHeightZeroWhenEmpty(c, j) ==
    IF TotalCount(c) > 0 /\ NodeCount(c, j) > 0
    THEN node_min_y_extend
         + Div(NodeCount(c, j) * YSpaceDistributed(c), TotalCount(c))
    ELSE 0

NodeHeight(c, j) ==
    IF TotalCount(c) > 0
    THEN node_min_y_extend
         + Div(NodeCount(c, j) * YSpaceDistributed(c), TotalCount(c))
    ELSE 0

\* variant: the nodes are stacked without the separation between them
RECURSIVE YPositionBeforeNoGap(_, _)
YPositionBeforeNoGap(c, j) ==
    IF j = 1 THEN One
    ELSE YPositionBeforeNoGap(c, j - 1) - NodeHeight(c, j - 1)

\* y_position before node j is placed: 1 minus the heights and separations above
RECURSIVE YPositionBefore(_, _)
YPositionBefore(c, j) ==
    IF j = 1 THEN One
    ELSE YPositionBefore(c, j - 1) - (NodeHeight(c, j - 1) + node_separation)

NodeDetails ==
    [c \in Cats |->
        [j \in 1..NumNodes(c) |->
            [x |-> NodeX(c), width |-> NodeWidth,
             y |-> YPositionBefore(c, j) - NodeHeight(c, j),
             height |-> NodeHeight(c, j)]]]

\* --------------------------------------------------- _get_line_x_position
\* <<left_node_x, right_node_x>> of the straight segment inside category c
GetLineXPosition(c) ==
    LET left0 == node_details[c][1].x
        right0 == node_details[c][1].x + node_details[c][1].width
        half == Div(straight_line_outside_node, 2)
        mid == Div(left0 + right0, 2)
    IN  IF c = 1
        THEN IF plot_id
             THEN <<left0 - straight_line_outside_node, right0>>
             ELSE IF extend_lines_into_outside_nodes
                  THEN <<mid, right0>>
                  ELSE <<right0, right0>>
        ELSE IF c = NumCats
             THEN IF extend_lines_into_outside_nodes
                  THEN <<left0, mid>>
                  ELSE <<left0, left0>>
             ELSE <<left0 - half, right0 + half>>

\* --------------------------------------------------- _get_line_y_positions
\* `ordered` is the sequence of line ids of ordered_line_data (dict order)
HasSubnodes(c, j) == node_data[c][j].has_subnodes
TargetNode(l, c) == line_data[l][c].node
\* the line carries a "subnode" key in category c (0 encodes its absence)
HasSubnodeTag(l, c) == line_data[l][c].subnode # 0
TargetSubnode(l, c) == line_data[l][c].subnode

LinesOfNode(ordered, c, j) ==
    LET T(l) == TargetNode(l, c) = j IN SelectSeq(ordered, T)

\* variant: the lines of a subnode in the reverse of the order handed in
LinesOfSubnodeReversed(ordered, c, j, sn) ==
    LET T(l) == /\ HasSubnodeTag(l, c)
                /\ TargetNode(l, c) = j
                /\ TargetSubnode(l, c) = sn
        mine == SelectSeq(ordered, T)
    IN  [k \in 1..Len(mine) |-> mine[Len(mine) - k + 1]]

LinesOfSubnode(ordered, c, j, sn) ==
    LET T(l) == /\ HasSubnodeTag(l, c)
                /\ TargetNode(l, c) = j
                /\ TargetSubnode(l, c) = sn
    IN  SelectSeq(ordered, T)

RECURSIVE SubnodeBlocks(_, _, _, _)
\* lines of node j in slot order when j declares subnodes: subnode sn.. last
SubnodeBlocks(ordered, c, j, sn) ==
    IF sn > Len(node_data[c][j].subnodes) THEN <<>>
    ELSE LinesOfSubnode(ordered, c, j, sn) \o SubnodeBlocks(ordered, c, j, sn + 1)

\* variant: subnodes ignored, the node's lines in the order handed in
NodeBlockUngrouped(ordered, c, j) == LinesOfNode(ordered, c, j)

\* variant: in a node with subnodes the lines that match no declared subnode
\* are slotted below the subnode blocks
NodeBlockKeepingUnmatched(ordered, c, j) ==
    IF ~HasSubnodes(c, j)
    THEN LinesOfNode(ordered, c, j)
    ELSE LET Unmatched(l) ==
                 /\ TargetNode(l, c) = j
                 /\ ~(/\ HasSubnodeTag(l, c)
                      /\ TargetSubnode(l, c) <= Len(node_data[c][j].subnodes))
         IN  SubnodeBlocks(ordered, c, j, 1) \o SelectSeq(ordered, Unmatched)

\* the lines that receive a slot in node j, top to bottom
NodeBlock(ordered, c, j) ==
    IF ~HasSubnodes(c, j)
    THEN LinesOfNode(ordered, c, j)
    ELSE SubnodeBlocks(ordered, c, j, 1)

TotalNodeSpace(c) == Sum([j \in 1..NumNodes(c) |-> node_details[c][j].height])

LineSpacingOf(ordered, c) ==
    Div(TimesRatio(TotalNodeSpace(c), LineSpaceShare), Len(ordered))

\* variant: the first slot half a spacing higher, at the border offset itself
FirstLineYAtOffset(ordered, c, j) ==
    LET sp == LineSpacingOf(ordered, c)
        node_y_top == node_details[c][j].y + node_details[c][j].height
        tot_lines == Len(LinesOfNode(ordered, c, j))
        line_space == sp * tot_lines
        offset_borders == Div(node_details[c][j].height - line_space, 2)
    IN  node_y_top - offset_borders

\* y of the first (topmost) slot of node j
FirstLineY(ordered, c, j) ==
    LET sp == LineSpacingOf(ordered, c)
        node_y_top == node_details[c][j].y + node_details[c][j].height
        tot_lines == Len(LinesOfNode(ordered, c, j))
        line_space == sp * tot_lines
        offset_borders == Div(node_details[c][j].height - line_space, 2)
    IN  node_y_top - offset_borders - Div(sp, 2)

NodeSlots(ordered, c, j) ==
    LET blk == NodeBlock(ordered, c, j)
        top == FirstLineY(ordered, c, j)
        sp == LineSpacingOf(ordered, c)
    IN  [k \in 1..Len(blk) |->
            [id |-> blk[k], y |-> top - (k - 1) * sp]]

RECURSIVE SlotsFromNode(_, _, _)
SlotsFromNode(ordered, c, j) ==
    IF j > NumNodes(c) THEN <<>>
    ELSE NodeSlots(ordered, c, j) \o SlotsFromNode(ordered, c, j + 1)

\* the returned dict, as the sequence of its items in insertion order
GetLineYPositions(ordered, c) == SlotsFromNode(ordered, c, 1)

\* variant: the keys in line_data order instead of the dict's own order
KeysInLineDataOrder(slots) ==
    LET ids == {slots[k].id : k \in 1..Len(slots)}
        T(l) == l \in ids
    IN  SelectSeq([l \in 1..NumLines |-> l], T)

\* dict helpers on sequences of [id, y] items
Keys(slots) == [k \in 1..Len(slots) |-> slots[k].id]
KeySet(slots) == {slots[k].id : k \in 1..Len(slots)}
SlotY(slots, l) == (CHOOSE k \in 1..Len(slots) : slots[k].id = l)
ValueOf(slots, l) == slots[SlotY(slots, l)].y

\* ------------------------------------------------------------ line segments
\* StraightLine.__init__: when finish lies left of start both names are rebound
\* in sequence, so both end up holding the former finish
StraightLine(start, finish, name) ==
    IF finish[1] < start[1]
    THEN [kind |-> "straight", start |-> finish, finish |-> finish, name |-> name]
    ELSE [kind |-> "straight", start |-> start, finish |-> finish, name |-> name]

\* variant: a connector that ends at the height it starts at
CurvedLineLevel(start, finish, name) ==
    [kind |-> "curved", start |-> start, finish |-> <<finish[1], start[2]>>,
     name |-> name]

CurvedLine(start, finish, name) ==
    [kind |-> "curved", start |-> start, finish |-> finish, name |-> name]

SegName(c, l) == [category |-> c, node |-> TargetNode(l, c), line |-> l]
\* name "id_<line>" of the connector to the id label (category 0: none)
IdName(l) == [category |-> 0, node |-> 0, line |-> l]

\* --------------------------------------------------------------- plot_ids
IdXPosition ==
    0 - Div(node_details[2][1].x - node_details[1][1].x - node_details[1][1].width,
            2)

\* the id connector appended for the k-th item of y_positions_left
IdConnector(y_positions_left, left_node_x, k) ==
    LET line_id_space == Div(One, NumLines)
        id_y == (One - Div(line_id_space, 2)) - (k - 1) * line_id_space
    IN  CurvedLine(<<IdXPosition, id_y>>,
                   <<left_node_x, y_positions_left[k].y>>,
                   IdName(y_positions_left[k].id))

PlotIds(segs, y_positions_left, left_node_x) ==
    [l \in LineIds |->
        IF l \in KeySet(y_positions_left)
        THEN Append(segs[l],
                    IdConnector(y_positions_left, left_node_x,
                                SlotY(y_positions_left, l)))
        ELSE segs[l]]

\* --------------------------------------------------- extend_line_segments
\* a variant of one loop iteration that records an empty slot mapping when it
\* is handed no line, instead of raising
ExtendOneCategorySkippingEmpty(st, c, direction) ==
    LET xs == GetLineXPosition(c)
        connection_x == IF direction = "left" THEN xs[2] ELSE xs[1]
        new_starting_x == IF direction = "left" THEN xs[1] ELSE xs[2]
        ordered == Keys(st.y_positions)
        y_positions_new == IF ordered = <<>> THEN <<>>
                           ELSE GetLineYPositions(ordered, c)
        new_segments(l) ==
            <<StraightLine(<<xs[1], ValueOf(y_positions_new, l)>>,
                           <<xs[2], ValueOf(y_positions_new, l)>>,
                           SegName(c, l)),
              CurvedLine(<<connection_x, ValueOf(y_positions_new, l)>>,
                         <<st.starting_x, ValueOf(st.y_positions, l)>>,
                         SegName(c, l))>>
    IN  [st EXCEPT
           !.line_spacing =
               Append(@, [category |-> c,
                          spacing |-> IF ordered = <<>> THEN 0
                                      ELSE LineSpacingOf(ordered, c)]),
           !.line_y_positions =
               Append(@, [category |-> c, slots |-> y_positions_new]),
           !.line_segments =
               [l \in LineIds |->
                   IF l \in KeySet(y_positions_new)
                   THEN @[l] \o new_segments(l)
                   ELSE @[l]],
           !.starting_x = new_starting_x,
           !.y_positions = y_positions_new]

\* One iteration of the loop over `categories`.  st holds the chart fields the
\* loop writes and the loop variables starting_x and y_positions.
ExtendOneCategory(st, c, direction) ==
    LET xs == GetLineXPosition(c)
        connection_x == IF direction = "left" THEN xs[2] ELSE xs[1]
        new_starting_x == IF direction = "left" THEN xs[1] ELSE xs[2]
        ordered == Keys(st.y_positions)
    IN  IF ordered = <<>>
        THEN [st EXCEPT !.err = "IndexError"]
        ELSE LET y_positions_new == GetLineYPositions(ordered, c)
                 new_segments(l) ==
                     <<StraightLine(<<xs[1], ValueOf(y_positions_new, l)>>,
                                    <<xs[2], ValueOf(y_positions_new, l)>>,
                                    SegName(c, l)),
                       CurvedLine(<<connection_x, ValueOf(y_positions_new, l)>>,
                                  <<st.starting_x, ValueOf(st.y_positions, l)>>,
                                  SegName(c, l))>>
             IN  [st EXCEPT
                    !.line_spacing =
                        Append(@, [category |-> c,
                                   spacing |-> LineSpacingOf(ordered, c)]),
                    !.line_y_positions =
                        Append(@, [category |-> c, slots |-> y_positions_new]),
                    !.line_segments =
                        [l \in LineIds |->
                            IF l \in KeySet(y_positions_new)
                            THEN @[l] \o new_segments(l)
                            ELSE @[l]],
                    !.starting_x = new_starting_x,
                    !.y_positions = y_positions_new]

RECURSIVE ExtendLoop(_, _, _)
ExtendLoop(st, categories, direction) ==
    IF categories = <<>> \/ st.err # ""
    THEN st
    ELSE ExtendLoop(ExtendOneCategory(st, Head(categories), direction),
                    Tail(categories), direction)

\* The whole method: the loop, then the test of the loop variable `category`,
\* which is unbound when `categories` is empty.
ExtendLineSegments(st, categories, direction) ==
    LET after == ExtendLoop(st, categories, direction)
    IN  IF after.err # "" THEN after
        ELSE IF categories = <<>>
        THEN [after EXCEPT !.err = "UnboundLocalError"]
        ELSE IF categories[Len(categories)] = 1 /\ plot_id
        THEN [after EXCEPT !.line_segments =
                 PlotIds(@, after.y_positions, after.starting_x)]
        ELSE after

\* ------------------------------------------------------------ make_lines
StartCategory == IF sorted_category # 0 THEN sorted_category ELSE 1

\* variant: the categories left of the anchor, farthest first
LeftCategoriesFarthestFirst ==
    [i \in 1..(StartCategory - 1) |-> i]

\* categories left of the anchor, nearest first
LeftCategories ==
    [i \in 1..(StartCategory - 1) |-> StartCategory - i]
RightCategories ==
    [i \in 1..(NumCats - StartCategory) |-> StartCategory + i]

\* the anchor step: slots in line_data order, one straight segment per slot
AnchorState ==
    LET c == StartCategory
        xs == GetLineXPosition(c)
        ordered == [l \in 1..NumLines |-> l]
        fresh == [line_segments |-> [l \in LineIds |-> <<>>],
                  line_y_positions |-> <<>>,
                  line_spacing |-> <<>>,
                  starting_x |-> xs[1],
                  y_positions |-> <<>>,
                  err |-> ""]
    IN  IF ordered = <<>>
        THEN [fresh EXCEPT !.err = "IndexError"]
        ELSE LET start_node_y_positions == GetLineYPositions(ordered, c)
             IN  [fresh EXCEPT
                    !.line_spacing =
                        <<[category |-> c, spacing |-> LineSpacingOf(ordered, c)]>>,
                    !.line_y_positions =
                        <<[category |-> c, slots |-> start_node_y_positions]>>,
                    !.line_segments =
                        [l \in LineIds |->
                            IF l \in KeySet(start_node_y_positions)
                            THEN <<StraightLine(
                                     <<xs[1], ValueOf(start_node_y_positions, l)>>,
                                     <<xs[2], ValueOf(start_node_y_positions, l)>>,
                                     SegName(c, l))>>
                            ELSE <<>>],
                    !.y_positions = start_node_y_positions]

\* the leftward sweep, from the anchor's left edge
LeftSweepState(anchor) ==
    IF anchor.err # "" THEN anchor
    ELSE ExtendLineSegments(anchor, LeftCategories, "left")

\* variant: the rightward sweep continues from the slots the leftward sweep
\* ended with
RightSweepFromLeftSlots(anchor, left) ==
    IF left.err # "" THEN left
    ELSE ExtendLineSegments(
             [left EXCEPT !.starting_x = GetLineXPosition(StartCategory)[2]],
             RightCategories, "right")

\* variant: the rightward sweep restarts from the anchor's slots of the lines
\* the leftward sweep ended with
RightSweepOfLeftSurvivors(anchor, left) ==
    IF left.err # "" THEN left
    ELSE LET Survives(slot) ==
                 \E k \in 1..Len(left.y_positions) : left.y_positions[k].id = slot.id
         IN  ExtendLineSegments(
                 [left EXCEPT
                    !.starting_x = GetLineXPosition(StartCategory)[2],
                    !.y_positions = SelectSeq(anchor.y_positions, Survives)],
                 RightCategories, "right")

\* the rightward sweep restarts from the anchor's right edge and slots
RightSweepState(anchor, left) ==
    IF left.err # "" THEN left
    ELSE ExtendLineSegments(
             [left EXCEPT
                !.starting_x = GetLineXPosition(StartCategory)[2],
                !.y_positions = anchor.y_positions],
             RightCategories, "right")

MakeLinesResult ==
    LET anchor == AnchorState
        left == LeftSweepState(anchor)
    IN  RightSweepState(anchor, left)

\* ------------------------------------------------------------ dict lookups
HasCategory(d, c) == \E k \in 1..Len(d) : d[k].category = c
EntryOf(d, c) == d[CHOOSE k \in 1..Len(d) : d[k].category = c]
SlotsOf(c) == EntryOf(line_y_positions, c).slots
SpacingOf(c) == EntryOf(line_spacing, c).spacing

\* --------------------------------------------------------- place_subnodes
Min(S) == CHOOSE a \in S : \A b \in S : a <= b
Maximum(S) == CHOOSE a \in S : \A b \in S : b <= a

\* lines (ids) tagged with subnode sn of node j in category c
SubnodeLines(c, j, sn) ==
    {l \in LineIds : /\ HasSubnodeTag(l, c)
                     /\ TargetNode(l, c) = j
                     /\ TargetSubnode(l, c) = sn}

\* the lookup line_y_positions[category][line_id] raises for these
SubnodeLookupFails(c, j, sn) ==
    \E l \in SubnodeLines(c, j, sn) : l \notin KeySet(SlotsOf(c))

SubnodeLineYs(c, j, sn) == {ValueOf(SlotsOf(c), l) : l \in SubnodeLines(c, j, sn)}

\* variant: the margin is a whole line_spacing
SubnodeMarginWholeSpacing(c) == SpacingOf(c)

SubnodeMargin(c) == TimesRatio(SpacingOf(c), SubnodeRelSize)

\* a variant that adds the new height to the one already stored under "height"
WriteSubnodeDataAccumulating(sd, c, j, sn) ==
    LET ys == SubnodeLineYs(c, j, sn)
        n == Cardinality(SubnodeLines(c, j, sn))
        y == IF ys # {}
             THEN Min(ys) - Div(SubnodeMargin(c), 2)
             ELSE None
        stored == IF sd.has_height THEN sd.height ELSE 0
    IN  IF n > 1
        THEN [sd EXCEPT !.has_y = TRUE, !.y = y, !.has_height = TRUE,
                        !.height = stored + Maximum(ys) - Min(ys)
                                      + SubnodeMargin(c)]
        ELSE IF n = 1
        THEN [sd EXCEPT !.has_y = TRUE, !.y = y, !.has_height = TRUE,
                        !.height = stored + SubnodeMargin(c)]
        ELSE [sd EXCEPT !.has_y = TRUE, !.y = y]

\* the subnode's dict after its "y" and "height" keys are written; the dict
\* is the caller's own (node_data is not copied).
WriteSubnodeData(sd, c, j, sn) ==
    LET ys == SubnodeLineYs(c, j, sn)
        n == Cardinality(SubnodeLines(c, j, sn))
        y == IF ys # {}
             THEN Min(ys) - Div(SubnodeMargin(c), 2)
             ELSE None
    IN  IF n > 1
        THEN [sd EXCEPT !.has_y = TRUE, !.y = y, !.has_height = TRUE,
                        !.height = Maximum(ys) - Min(ys) + SubnodeMargin(c)]
        ELSE IF n = 1
        THEN [sd EXCEPT !.has_y = TRUE, !.y = y, !.has_height = TRUE,
                        !.height = SubnodeMargin(c)]
        ELSE [sd EXCEPT !.has_y = TRUE, !.y = y]

\* subnodes_data[subnode].get("height") is truthy
HeightTruthy(sd) == sd.has_height /\ sd.height # None /\ sd.height # 0

SubNode(c, j, sn, sd) ==
    LET w == node_details[c][j].width
    IN  [label |-> sn,
         x |-> node_details[c][j].x
               + Div(w - TimesRatio(w, SubnodeRelSize), 2),
         width |-> TimesRatio(w, SubnodeRelSize),
         y |-> sd.y,
         height |-> sd.height]

RECURSIVE PlaceSubnodesFrom(_, _, _, _)
\* the loop over the declared subnodes of node j, from subnode sn on;
\* ms = [node_data, subnodes, made, err], made being the local list
PlaceSubnodesFrom(ms, c, j, sn) ==
    IF sn > Len(ms.node_data[c][j].subnodes) \/ ms.err # ""
    THEN ms
    ELSE IF SubnodeLookupFails(c, j, sn)
    THEN [ms EXCEPT !.err = "KeyError"]
    ELSE LET sd == WriteSubnodeData(ms.node_data[c][j].subnodes[sn], c, j, sn)
             next == [ms EXCEPT
                        !.node_data[c][j].subnodes[sn] = sd,
                        !.made = IF HeightTruthy(sd)
                                 THEN Append(@, SubNode(c, j, sn, sd))
                                 ELSE @]
         IN  PlaceSubnodesFrom(next, c, j, sn + 1)

PlaceSubnodes(ms, c, j) ==
    LET r == PlaceSubnodesFrom([ms EXCEPT !.made = <<>>], c, j, 1)
    IN  IF r.err # "" THEN r
        ELSE [r EXCEPT !.subnodes[c][j] = r.made]

\* ---------------------------------------------------------- make_subnodes
\* the nodes visited, in order: categories left to right, nodes top to bottom
RECURSIVE NodePairsFrom(_, _)
NodePairsFrom(c, j) ==
    IF c > NumCats THEN <<>>
    ELSE IF j > NumNodes(c) THEN NodePairsFrom(c + 1, 1)
    ELSE <<(<<c, j>>)>> \o NodePairsFrom(c, j + 1)

RECURSIVE MakeSubnodesOver(_, _)
MakeSubnodesOver(ms, pairs) ==
    IF pairs = <<>> \/ ms.err # "" THEN ms
    ELSE LET c == Head(pairs)[1]
             j == Head(pairs)[2]
         IN  MakeSubnodesOver(
                 IF HasSubnodes(c, j) THEN PlaceSubnodes(ms, c, j) ELSE ms,
                 Tail(pairs))

MakeSubnodesResult ==
    MakeSubnodesOver([node_data |-> node_data, subnodes |-> subnodes,
                      made |-> <<>>, err |-> ""],
                     NodePairsFrom(1, 1))

\* ---------------------------------------------------------- set_line_color
\* Every node and every subnode declares a facecolor of its own, none of them
\* "slategrey": a color names the rectangle it was declared for, and the
\* literal "slategrey" names none.
Slategrey == [category |-> 0, node |-> 0, subnode |-> 0]
NodeFacecolor(c, j) == [category |-> c, node |-> j, subnode |-> 0]
SubnodeFacecolor(c, j, sn) == [category |-> c, node |-> j, subnode |-> sn]
\* the colors np.random.rand(3) may return, two of them
RandomColors == {"rgb_a", "rgb_b"}

\* Node.get_color on node j of category c; tag 0 is subnode=None
GetColor(c, j, tag) ==
    IF tag # 0
    THEN IF \E k \in 1..Len(subnodes[c][j]) : subnodes[c][j][k].label = tag
         THEN SubnodeFacecolor(c, j, tag)
         ELSE Slategrey
    ELSE NodeFacecolor(c, j)

\* the branch for line_color_mode = "sorted_category"
ColorsOfSortedCategory ==
    [l \in LineIds |->
        GetColor(sorted_category, TargetNode(l, sorted_category),
                 TargetSubnode(l, sorted_category))]

\* ------------------------------------------------------------------ inputs
\* a subnode's dict as the caller supplies it: no geometry keys
FreshSubnode == [has_y |-> FALSE, y |-> None, has_height |-> FALSE, height |-> None]
\* a node dict without the "subnodes" key
PlainNode == [has_subnodes |-> FALSE, subnodes |-> <<>>]
\* a node dict declaring k subnodes
SubnodedNode(k) == [has_subnodes |-> TRUE, subnodes |-> [s \in 1..k |-> FreshSubnode]]

\* node-count shapes: one node count per category
Shapes(K) ==
    {s \in [1..K -> 1..MaxNodes] :
        Sum([c \in 1..K |-> s[c] - 1]) <= MaxExtraNodes}
\* a line's nodes: one declared node per category
Profiles(shape) ==
    {f \in [DOMAIN shape -> 1..MaxNodes] : \A c \in DOMAIN shape : f[c] <= shape[c]}
UntaggedLine(f) == [c \in DOMAIN f |-> [node |-> f[c], subnode |-> 0]]

FreshChart ==
    /\ node_details = <<>>
    /\ line_segments = <<>>
    /\ line_y_positions = <<>>
    /\ line_spacing = <<>>
    /\ subnodes = <<>>
    /\ line_color = <<>>
    /\ run = 1
    /\ previous = <<>>
    /\ pc = "make_nodes"
    /\ err = ""

DefaultParameters ==
    /\ nodes_x_share = NodesXShareDefault
    /\ node_min_y_extend = NodeMinYExtendDefault
    /\ node_separation = NodeSeparationDefault
    /\ straight_line_outside_node = StraightLineOutsideNodeDefault

\* charts without subnodes, default sizes, every anchor
Init ==
    /\ \E K \in 2..MaxCats, N \in 0..MaxLines :
         \E shape \in Shapes(K) :
            /\ node_data = [c \in 1..K |-> [j \in 1..shape[c] |-> PlainNode]]
            /\ \E lines \in [1..N -> Profiles(shape)] :
                  line_data = [l \in 1..N |-> UntaggedLine(lines[l])]
            /\ sorted_category \in 0..K
    /\ plot_id = FALSE
    /\ extend_lines_into_outside_nodes = FALSE
    /\ DefaultParameters
    /\ line_color_mode = "sorted_category"
    /\ FreshChart

\* charts with one node that declares subnodes: MaxCats categories of one plain
\* node each, except category cs, whose first node declares k subnodes and whose
\* second node is plain; a line through the first node carries any tag, also
\* none (0) or an undeclared one (a tag above k); the anchor is a middle
\* category, the only choice with which __init__ can return a chart
SubnodeCategoryLines ==
    {[node |-> 1, subnode |-> t] : t \in 0..MaxSubnodes}
        \cup {[node |-> 2, subnode |-> 0]}

InitSub ==
    /\ \E cs \in 1..MaxCats, k \in (MaxSubnodes - 1)..MaxSubnodes, N \in 0..MaxLines :
          /\ node_data = [c \in 1..MaxCats |->
                            IF c = cs THEN <<SubnodedNode(k), PlainNode>>
                            ELSE <<PlainNode>>]
          /\ \E at_cs \in [1..N -> SubnodeCategoryLines] :
                line_data = [l \in 1..N |->
                                [c \in 1..MaxCats |->
                                    IF c = cs THEN at_cs[l]
                                    ELSE [node |-> 1, subnode |-> 0]]]
    /\ sorted_category \in 2..(MaxCats - 1)
    /\ plot_id = FALSE
    /\ extend_lines_into_outside_nodes = FALSE
    /\ DefaultParameters
    /\ line_color_mode = "sorted_category"
    /\ FreshChart

\* charts built again from the same objects: three categories anchored at the
\* middle one, whose first node declares subnodes
InitRerun ==
    /\ \E k \in (MaxSubnodes - 1)..MaxSubnodes, N \in 1..MaxLines :
          /\ node_data = <<(<<PlainNode>>), <<SubnodedNode(k), PlainNode>>,
                           (<<PlainNode>>)>>
          /\ \E mid \in [1..N -> SubnodeCategoryLines] :
                line_data = [l \in 1..N |->
                                <<[node |-> 1, subnode |-> 0], mid[l],
                                  [node |-> 1, subnode |-> 0]>>]
    /\ sorted_category = 2
    /\ plot_id = FALSE
    /\ extend_lines_into_outside_nodes = FALSE
    /\ DefaultParameters
    /\ line_color_mode = "sorted_category"
    /\ FreshChart

\* as the charts built again, a line through the plain second node of the
\* middle category may also carry a "subnode" key
TaggedCategoryLines ==
    SubnodeCategoryLines \cup {[node |-> 2, subnode |-> t] : t \in 1..MaxSubnodes}

InitTags ==
    /\ \E k \in (MaxSubnodes - 1)..MaxSubnodes, N \in 1..MaxLines :
          /\ node_data = <<(<<PlainNode>>), <<SubnodedNode(k), PlainNode>>,
                           (<<PlainNode>>)>>
          /\ \E mid \in [1..N -> TaggedCategoryLines] :
                line_data = [l \in 1..N |->
                                <<[node |-> 1, subnode |-> 0], mid[l],
                                  [node |-> 1, subnode |-> 0]>>]
    /\ sorted_category = 2
    /\ plot_id = FALSE
    /\ extend_lines_into_outside_nodes = FALSE
    /\ DefaultParameters
    /\ line_color_mode = "sorted_category"
    /\ FreshChart

\* node sizing: three categories anchored at the middle one, which declares up to
\* MaxWideNodes nodes; minimum extend and separation vary
MinYExtends == {0, Frac(1, 100), Frac(1, 10), Frac(1, 5)}
Separations == {0, Frac(1, 20), Frac(1, 10)}

InitNodes ==
    /\ \E n \in 1..MaxWideNodes, N \in 0..MaxLines :
          /\ node_data = <<(<<PlainNode>>), [j \in 1..n |-> PlainNode], (<<PlainNode>>)>>
          /\ \E mid \in [1..N -> 1..n] :
                line_data = [l \in 1..N |->
                                <<[node |-> 1, subnode |-> 0],
                                  [node |-> mid[l], subnode |-> 0],
                                  [node |-> 1, subnode |-> 0]>>]
    /\ sorted_category = 2
    /\ plot_id = FALSE
    /\ extend_lines_into_outside_nodes = FALSE
    /\ nodes_x_share = NodesXShareDefault
    /\ node_min_y_extend \in MinYExtends
    /\ node_separation \in Separations
    /\ straight_line_outside_node = StraightLineOutsideNodeDefault
    /\ line_color_mode = "sorted_category"
    /\ FreshChart

\* crowded charts: as the node-sizing charts, with one node and one line more
\* than those have at most
InitCrowded ==
    /\ \E N \in 1..(MaxLines + 1) :
          /\ node_data = <<(<<PlainNode>>),
                           [j \in 1..(MaxWideNodes + 1) |-> PlainNode],
                           (<<PlainNode>>)>>
          /\ \E mid \in [1..N -> 1..(MaxWideNodes + 1)] :
                line_data = [l \in 1..N |->
                                <<[node |-> 1, subnode |-> 0],
                                  [node |-> mid[l], subnode |-> 0],
                                  [node |-> 1, subnode |-> 0]>>]
    /\ sorted_category = 2
    /\ plot_id = FALSE
    /\ extend_lines_into_outside_nodes = FALSE
    /\ nodes_x_share = NodesXShareDefault
    /\ node_min_y_extend \in MinYExtends
    /\ node_separation \in Separations
    /\ straight_line_outside_node = StraightLineOutsideNodeDefault
    /\ line_color_mode = "sorted_category"
    /\ FreshChart

\* charts with a side category that declares subnodes: MaxCats categories
\* anchored at the last but one; the category two to the left of the anchor
\* or the one to its right has a node declaring MaxSubnodes subnodes and a
\* plain node
InitSides ==
    /\ \E cs \in {MaxCats - 2, MaxCats}, N \in 1..MaxLines :
          /\ node_data = [c \in 1..MaxCats |->
                            IF c = cs THEN <<SubnodedNode(MaxSubnodes), PlainNode>>
                            ELSE <<PlainNode>>]
          /\ \E at_cs \in [1..N -> SubnodeCategoryLines] :
                line_data = [l \in 1..N |->
                                [c \in 1..MaxCats |->
                                    IF c = cs THEN at_cs[l]
                                    ELSE [node |-> 1, subnode |-> 0]]]
    /\ sorted_category = MaxCats - 1
    /\ plot_id = FALSE
    /\ extend_lines_into_outside_nodes = FALSE
    /\ DefaultParameters
    /\ line_color_mode = "sorted_category"
    /\ FreshChart

\* subnodes under varying node sizes: as the node-sizing charts, the first node
\* of the wide category declaring MaxSubnodes subnodes and each of its lines
\* tagged with one of them
WideCategoryLines(n) ==
    {[node |-> 1, subnode |-> t] : t \in 1..MaxSubnodes}
        \cup {[node |-> j, subnode |-> 0] : j \in 2..n}

InitSubSizes ==
    /\ \E n \in 1..MaxWideNodes, N \in 1..MaxLines :
          /\ node_data = <<(<<PlainNode>>),
                           [j \in 1..n |-> IF j = 1 THEN SubnodedNode(MaxSubnodes)
                                           ELSE PlainNode],
                           (<<PlainNode>>)>>
          /\ \E mid \in [1..N -> WideCategoryLines(n)] :
                line_data = [l \in 1..N |->
                                <<[node |-> 1, subnode |-> 0], mid[l],
                                  [node |-> 1, subnode |-> 0]>>]
    /\ sorted_category = 2
    /\ plot_id = FALSE
    /\ extend_lines_into_outside_nodes = FALSE
    /\ nodes_x_share = NodesXShareDefault
    /\ node_min_y_extend \in MinYExtends
    /\ node_separation \in Separations
    /\ straight_line_outside_node = StraightLineOutsideNodeDefault
    /\ line_color_mode = "sorted_category"
    /\ FreshChart

\* ----------------------------------------------------------------- actions
NoSubnodes == [c \in Cats |-> [j \in 1..NumNodes(c) |-> <<>>]]

MakeNodes ==
    /\ pc = "make_nodes"
    /\ node_details' = NodeDetails
    /\ subnodes' = NoSubnodes
    /\ pc' = "make_lines"
    /\ UNCHANGED <<inputs, line_segments, line_y_positions, line_spacing,
                   line_color, err, run, previous>>

MakeLines ==
    /\ pc = "make_lines"
    /\ LET r == MakeLinesResult
       IN  /\ line_segments' = r.line_segments
           /\ line_y_positions' = r.line_y_positions
           /\ line_spacing' = r.line_spacing
           /\ err' = r.err
           /\ pc' = IF r.err = "" THEN "make_subnodes" ELSE "error"
    /\ UNCHANGED <<inputs, node_details, subnodes, line_color, run, previous>>

MakeSubnodes ==
    /\ pc = "make_subnodes"
    /\ LET r == MakeSubnodesResult
       IN  /\ node_data' = r.node_data
           /\ subnodes' = r.subnodes
           /\ err' = r.err
           /\ pc' = IF r.err = "" THEN "set_line_color" ELSE "error"
    /\ UNCHANGED <<line_data, sorted_category, plot_id,
                   extend_lines_into_outside_nodes, nodes_x_share,
                   node_min_y_extend, node_separation,
                   straight_line_outside_node, line_color_mode,
                   node_details, line_segments, line_y_positions, line_spacing,
                   line_color, run, previous>>

\* set_line_color; "cat_cmap" (matplotlib's colormaps) is not among the modes
\* the charts here are built with.
SetLineColor ==
    /\ pc = "set_line_color"
    /\ IF line_color_mode = "sorted_category"
       THEN IF sorted_category = 0 /\ NumLines > 0
            THEN /\ err' = "KeyError"
                 /\ pc' = "error"
                 /\ UNCHANGED line_color
            ELSE /\ line_color' = ColorsOfSortedCategory
                 /\ pc' = "plot"
                 /\ UNCHANGED err
       ELSE IF line_color_mode = "random"
       THEN /\ line_color' \in [LineIds -> RandomColors]
            /\ pc' = "plot"
            /\ UNCHANGED err
       ELSE /\ err' = "ValueError"
            /\ pc' = "error"
            /\ UNCHANGED line_color
    /\ UNCHANGED <<inputs, node_details, line_segments, line_y_positions,
                   line_spacing, subnodes, run, previous>>

\* ------------------------------------------------------------------- plot
\* AgglutinatedLine.num, the sampling density handed to every segment
LineNum == 100
Abs(a) == IF a < 0 THEN 0 - a ELSE a
\* int(abs(finish[0] - start[0]) * num) is at least 1: the segment yields points
HasPoints(seg) == Abs(seg.finish[1] - seg.start[1]) * LineNum >= One
\* the segment after its get_line_points was called: a CurvedLine whose finish
\* lies left of its start rebinds both, a StraightLine only reads them
GetLinePoints(seg) ==
    IF seg.kind = "curved" /\ seg.finish[1] < seg.start[1]
    THEN [seg EXCEPT !.start = seg.finish, !.finish = seg.start]
    ELSE seg
\* AgglutinatedLine.get_line_points unpacks zip(*sorted(set(...))), which
\* raises ValueError when no segment yielded a point
NoPoints(l) == \A k \in 1..Len(line_segments[l]) : ~HasPoints(line_segments[l][k])
\* Node.print_label adds position[1] to extend[1] / 2 for every SubNode
SubnodeWithoutY ==
    \E c \in Cats : \E j \in 1..NumNodes(c) :
        \E k \in 1..Len(subnodes[c][j]) : subnodes[c][j][k].y = None
\* the first line, in line_data order, whose plot raises (0: none does)
FirstUnplottable ==
    IF \E l \in LineIds : NoPoints(l)
    THEN CHOOSE l \in LineIds :
            NoPoints(l) /\ \A m \in LineIds : NoPoints(m) => l <= m
    ELSE 0
\* the segments once the lines before `stop` are drawn (all when stop = 0)
SegmentsPlotted(stop) ==
    [l \in LineIds |->
        IF stop = 0 \/ l < stop
        THEN [k \in 1..Len(line_segments[l]) |-> GetLinePoints(line_segments[l][k])]
        ELSE line_segments[l]]

\* plot, then show_figure, which with plot_id off only sets the axes: the
\* nodes and their labels are drawn first, then the lines in line_data order
Plot ==
    /\ pc = "plot"
    /\ IF SubnodeWithoutY
       THEN /\ err' = "TypeError"
            /\ pc' = "error"
            /\ UNCHANGED line_segments
       ELSE /\ line_segments' = SegmentsPlotted(FirstUnplottable)
            /\ err' = IF FirstUnplottable = 0 THEN err ELSE "ValueError"
            /\ pc' = IF FirstUnplottable = 0 THEN "done" ELSE "error"
    /\ UNCHANGED <<inputs, node_details, line_y_positions, line_spacing,
                   subnodes, line_color, run, previous>>

Next == MakeNodes \/ MakeLines \/ MakeSubnodes \/ SetLineColor \/ Plot

\* the caller constructs another AlluvialChart from the same line_data and
\* node_data objects once the constructor has returned
Rerun ==
    /\ pc = "done"
    /\ run < MaxRuns
    /\ run' = run + 1
    /\ previous' = chart
    /\ node_details' = <<>>
    /\ line_segments' = <<>>
    /\ line_y_positions' = <<>>
    /\ line_spacing' = <<>>
    /\ subnodes' = <<>>
    /\ line_color' = <<>>
    /\ pc' = "make_nodes"
    /\ UNCHANGED <<inputs, err>>

NextRerun == Next \/ Rerun

\* the caller constructs another AlluvialChart from the same node_data object
\* and a line_data in which one line goes elsewhere in the anchor category
Reuse ==
    /\ pc = "done"
    /\ run < MaxRuns
    /\ \E l \in LineIds : \E t \in SubnodeCategoryLines :
          /\ t # line_data[l][sorted_category]
          /\ line_data' = [line_data EXCEPT ![l][sorted_category] = t]
    /\ run' = run + 1
    /\ previous' = chart
    /\ node_details' = <<>>
    /\ line_segments' = <<>>
    /\ line_y_positions' = <<>>
    /\ line_spacing' = <<>>
    /\ subnodes' = <<>>
    /\ line_color' = <<>>
    /\ pc' = "make_nodes"
    /\ UNCHANGED <<node_data, sorted_category, plot_id,
                   extend_lines_into_outside_nodes, nodes_x_share,
                   node_min_y_extend, node_separation,
                   straight_line_outside_node, line_color_mode, err>>

NextReuse == Next \/ Reuse

\* the node_data as the caller writes it, without the keys make_subnodes adds
AsDeclared(nd) ==
    [c \in DOMAIN nd |->
        [j \in DOMAIN nd[c] |->
            IF nd[c][j].has_subnodes
            THEN SubnodedNode(Len(nd[c][j].subnodes))
            ELSE PlainNode]]

\* once the first constructor call is over (returned or raised) the caller
\* constructs a chart from a second input: new objects that differ from the
\* first input in where one line goes in one category other than the anchor;
\* previous keeps the first chart, the exception it ended with and the
\* category in which the inputs differ
Vary ==
    /\ pc \in {"done", "error"}
    /\ run = 1
    /\ \E l \in LineIds : \E c \in Cats \ {StartCategory} :
          \E t \in SubnodeCategoryLines :
              /\ t.node <= Len(node_data[c])
              /\ t.subnode # 0 => node_data[c][t.node].has_subnodes
              /\ t # line_data[l][c]
              /\ line_data' = [line_data EXCEPT ![l][c] = t]
              /\ previous' = <<node_details, line_segments, line_y_positions,
                               line_spacing, subnodes, line_color, err, c>>
    /\ node_data' = AsDeclared(node_data)
    /\ run' = run + 1
    /\ node_details' = <<>>
    /\ line_segments' = <<>>
    /\ line_y_positions' = <<>>
    /\ line_spacing' = <<>>
    /\ subnodes' = <<>>
    /\ line_color' = <<>>
    /\ pc' = "make_nodes"
    /\ err' = ""
    /\ UNCHANGED <<sorted_category, plot_id,
                   extend_lines_into_outside_nodes, nodes_x_share,
                   node_min_y_extend, node_separation,
                   straight_line_outside_node, line_color_mode>>

NextSides == Next \/ Vary

Spec == Init /\ [][Next]_vars
SpecRerun == InitRerun /\ [][NextRerun]_vars
SpecReuse == InitRerun /\ [][NextReuse]_vars
SpecSub == InitSub /\ [][Next]_vars
SpecNodes == InitNodes /\ [][Next]_vars
SpecSubSizes == InitSubSizes /\ [][Next]_vars
SpecTags == InitTags /\ [][Next]_vars
SpecCrowded == InitCrowded /\ [][Next]_vars
SpecSides == InitSides /\ [][NextSides]_vars
SpecSideDrops == InitSides /\ [][Next]_vars

\* ------------------------------------------------------------- properties
\* vocabulary of the properties
NodesMade == pc # "make_nodes"
\* plot has raised: the layout and the colors were complete before it
PlotRaised ==
    /\ pc = "error"
    /\ err \in {"TypeError", "ValueError"}
    /\ line_color_mode \in {"sorted_category", "random"}
LinesMade ==
    \/ pc \in {"make_subnodes", "set_line_color", "plot", "done"}
    \/ err = "KeyError"
    \/ PlotRaised
MakeLinesRaised == err \in {"IndexError", "UnboundLocalError"}
Slotted(c, l) == HasCategory(line_y_positions, c) /\ l \in KeySet(SlotsOf(c))
YOf(c, l) == ValueOf(SlotsOf(c), l)
\* a comes before b in the slot mapping recorded for category c
Precedes(c, a, b) ==
    /\ Slotted(c, a)
    /\ Slotted(c, b)
    /\ SlotY(SlotsOf(c), a) < SlotY(SlotsOf(c), b)
\* the category processed just before c on c's side of the anchor
PreviousCategory(c) == IF c < StartCategory THEN c + 1 ELSE c - 1
\* the categories from the one next to the anchor up to c
SweepUpTo(c) ==
    IF c < StartCategory THEN c..(StartCategory - 1) ELSE (StartCategory + 1)..c
DeclaredSubnode(l, c) ==
    /\ HasSubnodeTag(l, c)
    /\ TargetSubnode(l, c) <= Len(node_data[c][TargetNode(l, c)].subnodes)
SameTarget(a, b, c) ==
    /\ TargetNode(a, c) = TargetNode(b, c)
    /\ HasSubnodes(c, TargetNode(a, c)) =>
          /\ DeclaredSubnode(a, c)
          /\ TargetSubnode(a, c) = TargetSubnode(b, c)
IsStraight(seg) == seg.kind = "straight"
IsCurved(seg) == seg.kind = "curved"
CountOf(segs, T(_)) == Len(SelectSeq(segs, T))

\* C1: make_lines completes (anchor step and both sweeps) for every chart that
\* has lines, whichever category anchors it - the default, the first, the last
\* or a middle one - also when one sweep has no category to visit.
C1_MakeLinesCompletes == NumLines >= 1 => ~MakeLinesRaised

\* C2: after make_lines with plot_id off every line id of line_data has
\* 2*(K-1)+1 segments: one straight per category and one curved per pair of
\* adjacent categories.
C2_SegmentCount ==
    (LinesMade /\ ~plot_id) =>
        \A l \in LineIds :
            /\ Len(line_segments[l]) = 2 * (NumCats - 1) + 1
            /\ CountOf(line_segments[l], IsStraight) = NumCats
            /\ CountOf(line_segments[l], IsCurved) = NumCats - 1

Budget(c) ==
    One - NumNodes(c) * node_min_y_extend - (NumNodes(c) - 1) * node_separation

C6_HeightAtLeastMinimum ==
    NodesMade =>
        \A c \in Cats : \A j \in 1..NumNodes(c) :
            node_details[c][j].height >= node_min_y_extend

\* C7: with total flow > 0 a node's height is the minimum plus its share
\* count/total of the budget 1 - n*min - (n-1)*separation, so a node without
\* flow gets exactly the minimum; with total flow 0 every height is 0.
C7_HeightFormula ==
    NodesMade =>
        \A c \in Cats : \A j \in 1..NumNodes(c) :
            IF TotalCount(c) > 0
            THEN /\ node_details[c][j].height * TotalCount(c)
                      = node_min_y_extend * TotalCount(c)
                        + NodeCount(c, j) * Budget(c)
                 /\ NodeCount(c, j) = 0 =>
                        node_details[c][j].height = node_min_y_extend
            ELSE node_details[c][j].height = 0

\* one category holds a node without lines, a node with one line and a node
\* with two, each sized by the formula
C7_Witness ==
    /\ NodesMade
    /\ node_min_y_extend > 0
    /\ node_separation > 0
    /\ \E c \in Cats : \E i, j, k \in 1..NumNodes(c) :
          /\ NodeCount(c, i) = 0
          /\ NodeCount(c, j) = 1
          /\ NodeCount(c, k) = 2
          /\ node_details[c][i].height = node_min_y_extend
          /\ node_details[c][k].height - node_min_y_extend
                = 2 * (node_details[c][j].height - node_min_y_extend)
          /\ node_details[c][j].height > node_min_y_extend

\* C8 as stated: a node through which no line passes has height 0.
C8_EmptyNodeHasHeightZero ==
    NodesMade =>
        \A c \in Cats : \A j \in 1..NumNodes(c) :
            NodeCount(c, j) = 0 => node_details[c][j].height = 0

\* C8 amended: a node through which no line passes has height
\* node_min_y_extend when its category has lines, and height 0 only when the
\* category has none.
C8_EmptyNodeHasMinimumHeight ==
    NodesMade =>
        \A c \in Cats : \A j \in 1..NumNodes(c) :
            NodeCount(c, j) = 0 =>
                node_details[c][j].height
                    = IF TotalCount(c) > 0 THEN node_min_y_extend ELSE 0

\* a node without lines next to a node with lines, the minimum not 0
C8_Witness ==
    /\ NodesMade
    /\ node_min_y_extend > 0
    /\ \E c \in Cats : \E i, j \in 1..NumNodes(c) :
          /\ NodeCount(c, i) = 0
          /\ NodeCount(c, j) > 0
          /\ node_details[c][i].height = node_min_y_extend

\* C9: in every category each slot lies within the vertical extent of the node
\* its line targets, and no two lines of the category share a slot.
C9_SlotsInsideNodes ==
    \A c \in Cats :
        HasCategory(line_y_positions, c) =>
            /\ \A l \in KeySet(SlotsOf(c)) :
                  /\ YOf(c, l) >= node_details[c][TargetNode(l, c)].y
                  /\ YOf(c, l) <= node_details[c][TargetNode(l, c)].y
                                    + node_details[c][TargetNode(l, c)].height
            /\ \A a, b \in KeySet(SlotsOf(c)) :
                  a # b => YOf(c, a) # YOf(c, b)

SubnodesMade == pc \in {"set_line_color", "plot", "done"} \/ PlotRaised
\* lines tagged with subnode sn of node j in category c
TaggedWith(c, j, sn) ==
    {l \in LineIds : /\ TargetNode(l, c) = j
                     /\ HasSubnodeTag(l, c)
                     /\ TargetSubnode(l, c) = sn}
SubnodeRecords(c, j, sn) ==
    {k \in 1..Len(subnodes[c][j]) : subnodes[c][j][k].label = sn}

\* C11: a declared subnode whose tagged lines hold the slot ys S gets, when S
\* is not empty, the height (max S - min S) plus one margin of 0.9 * the
\* category's line_spacing (so exactly one margin for a single line) and starts
\* half a margin below min S; when S is empty it gets no geometry and is not
\* among the node's subnodes.
C11_SubnodeSizing ==
    SubnodesMade =>
        \A c \in Cats : \A j \in 1..NumNodes(c) :
            \A sn \in 1..Len(node_data[c][j].subnodes) :
                LET S == {YOf(c, l) : l \in TaggedWith(c, j, sn)}
                    recs == SubnodeRecords(c, j, sn)
                IN  IF S = {}
                    THEN recs = {}
                    ELSE /\ Cardinality(recs) = 1
                         /\ \A k \in recs : \E lo, hi \in S :
                               /\ \A y \in S : lo <= y /\ y <= hi
                               /\ 10 * subnodes[c][j][k].height
                                     = 10 * (hi - lo) + 9 * SpacingOf(c)
                               /\ 20 * subnodes[c][j][k].y
                                     = 20 * lo - 9 * SpacingOf(c)

\* a node with two subnodes, two lines in one and one line in the other
C11_Witness ==
    /\ SubnodesMade
    /\ \E c \in Cats : \E j \in 1..NumNodes(c) :
          /\ Len(node_data[c][j].subnodes) = 2
          /\ \E x, y \in 1..2 :
                /\ Cardinality(TaggedWith(c, j, x)) = 2
                /\ Cardinality(TaggedWith(c, j, y)) = 1
                /\ \E k \in SubnodeRecords(c, j, x) :
                      10 * subnodes[c][j][k].height = 19 * SpacingOf(c)
                /\ \E k \in SubnodeRecords(c, j, y) :
                      10 * subnodes[c][j][k].height = 9 * SpacingOf(c)

\* C12: every subnode rectangle lies within the vertical extent of its parent
\* node.
C12_SubnodeInsideNode ==
    SubnodesMade =>
        \A c \in Cats : \A j \in 1..NumNodes(c) :
            \A k \in 1..Len(subnodes[c][j]) :
                /\ subnodes[c][j][k].y >= node_details[c][j].y
                /\ subnodes[c][j][k].y + subnodes[c][j][k].height
                      <= node_details[c][j].y + node_details[c][j].height

\* C13: no partial outcome - whenever make_nodes, make_lines and make_subnodes
\* have returned without raising, every line id of line_data has a slot y in
\* every category and a full set of path segments.
C13_NoPartialOutcome ==
    SubnodesMade =>
        \A l \in LineIds :
            /\ \A c \in Cats : Slotted(c, l)
            /\ Len(line_segments[l]) = 2 * (NumCats - 1) + 1

\* the layout has returned; one line has all its slots and segments, another
\* has no slot at the anchor and no segment at all
C13_Witness ==
    /\ SubnodesMade
    /\ \E a, b \in LineIds :
          /\ \A c \in Cats : Slotted(c, a)
          /\ Len(line_segments[a]) = 2 * (NumCats - 1) + 1
          /\ ~Slotted(StartCategory, b)
          /\ Len(line_segments[b]) = 0

\* the rectangles, slots and segments of a chart <<node_details, line_segments,
\* line_y_positions, line_spacing, subnodes, line_color>>
Geometry(ch) == <<ch[1], ch[5], ch[3], ch[4], ch[2]>>
Returned == pc = "done"

\* C14: idempotence - a second construction from the same line_data and
\* node_data objects (color mode not random) yields the same node rectangles,
\* subnode rectangles, slot ys and path segments as the first.
C14_Idempotent ==
    (run > 1 /\ Returned /\ line_color_mode # "random") =>
        Geometry(chart) = Geometry(previous)

\* the second construction has returned and the chart holds a subnode
\* rectangle, whose dict in node_data was already written by the first
C14_Witness ==
    /\ run = 2
    /\ Returned
    /\ Geometry(chart) = Geometry(previous)
    /\ \E c \in Cats : \E j \in 1..NumNodes(c) :
          /\ Len(subnodes[c][j]) >= 1
          /\ \E sn \in 1..Len(node_data[c][j].subnodes) :
                node_data[c][j].subnodes[sn].has_height

\* C15: no step of a construction changes the caller's node_data or line_data
\* (no key added, removed or rewritten in any nested dict), so nothing is
\* carried from one construction to the next through the inputs.
C15_InputsUnchanged ==
    [][node_data' = node_data /\ line_data' = line_data]_vars

\* a second construction starts from a node_data in which a subnode dict
\* carries the "y" and "height" keys written by the first
C15_Witness ==
    /\ run = 2
    /\ pc = "make_nodes"
    /\ \E c \in Cats : \E j \in 1..NumNodes(c) :
          \E sn \in 1..Len(node_data[c][j].subnodes) :
              /\ node_data[c][j].subnodes[sn].has_y
              /\ node_data[c][j].subnodes[sn].has_height

\* line l carries, in category c, a subnode label its node does not declare
UndeclaredTag(l, c) == HasSubnodeTag(l, c) /\ ~DeclaredSubnode(l, c)

\* C16: when some line references a subnode label that is not declared under
\* its node, the construction fails with an error; it never completes.
C16_UndeclaredLabelRaises ==
    (\E l \in LineIds : \E c \in Cats : UndeclaredTag(l, c)) => ~Returned

\* the constructor has returned although a line carries, at the anchor, a
\* subnode label that its node, which declares no subnodes, does not have
C16_Witness ==
    /\ Returned
    /\ err = ""
    /\ \E l \in LineIds :
          /\ UndeclaredTag(l, StartCategory)
          /\ ~HasSubnodes(StartCategory, TargetNode(l, StartCategory))
          /\ Slotted(StartCategory, l)
          /\ Len(line_segments[l]) = 2 * (NumCats - 1) + 1

\* make_lines has run (to its end or to an exception)
LinesRan == pc \notin {"make_nodes", "make_lines"}
\* the sweep asks for slots in category c with the empty slot mapping of the
\* category processed before it
EmptyHandedOver(c) ==
    /\ c # StartCategory
    /\ HasCategory(line_y_positions, PreviousCategory(c))
    /\ SlotsOf(PreviousCategory(c)) = <<>>
    /\ c > StartCategory =>
          (StartCategory > 1 /\ HasCategory(line_y_positions, 1))

\* C17: when the slot assigner is asked for the slots of a category with zero
\* lines - line_data is empty, or the previous sweep step hands over an empty
\* mapping - the construction ends in an error (IndexError) and no slot
\* mapping is recorded for that category.
C17_ZeroLinesRaise ==
    LinesRan =>
        /\ NumLines = 0 =>
              (pc = "error" /\ err = "IndexError" /\ line_y_positions = <<>>)
        /\ \A c \in Cats :
              EmptyHandedOver(c) =>
                  /\ pc = "error"
                  /\ err = "IndexError"
                  /\ ~HasCategory(line_y_positions, c)

\* the chart has lines, none of them gets a slot at the anchor, and the first
\* step of the leftward sweep has raised
C17_Witness ==
    /\ NumLines >= 1
    /\ pc = "error"
    /\ err = "IndexError"
    /\ EmptyHandedOver(StartCategory - 1)
    /\ Len(line_y_positions) = 1

\* the facecolor of the rectangle line l goes to in category c: its subnode's
\* when the line carries a subnode tag there, else its node's
TargetFacecolor(l, c) ==
    IF HasSubnodeTag(l, c)
    THEN SubnodeFacecolor(c, TargetNode(l, c), TargetSubnode(l, c))
    ELSE NodeFacecolor(c, TargetNode(l, c))

\* C18: in line_color_mode "sorted_category" every line's color is the
\* facecolor of the node it targets at the anchor category or, when it carries
\* a subnode tag there, of that subnode; a failed lookup is an error, never a
\* default color.
C18_ColorOfAnchorTarget ==
    (Returned /\ line_color_mode = "sorted_category") =>
        \A l \in LineIds :
            /\ line_color[l] = TargetFacecolor(l, StartCategory)
            /\ line_color[l] # Slategrey

\* the constructor has returned; one line has the facecolor of its subnode,
\* another, whose tag is not declared under its node, the default color
C18_Witness ==
    /\ Returned
    /\ line_color_mode = "sorted_category"
    /\ \E a, b \in LineIds :
          /\ HasSubnodeTag(a, StartCategory)
          /\ line_color[a] = TargetFacecolor(a, StartCategory)
          /\ UndeclaredTag(b, StartCategory)
          /\ line_color[b] = Slategrey

\* rectangle r (fields x, y, width, height) lies inside the unit square
InUnitSquare(r) ==
    /\ 0 <= r.x
    /\ r.x + r.width <= One
    /\ 0 <= r.y
    /\ r.y + r.height <= One
    /\ r.height >= 0

\* C19: every node rectangle and every subnode rectangle lies inside the unit
\* square, the rightmost category's right edge is at x = 1 and the first
\* node's top is at y = 1.
C19_RectanglesInUnitSquare ==
    SubnodesMade =>
        \A c \in Cats :
            /\ node_details[c][1].y + node_details[c][1].height = One
            /\ \A j \in 1..NumNodes(c) :
                  /\ InUnitSquare(node_details[c][j])
                  /\ c = NumCats =>
                        node_details[c][j].x + node_details[c][j].width = One
                  /\ \A k \in 1..Len(subnodes[c][j]) :
                        InUnitSquare(subnodes[c][j][k])

\* every node rectangle is inside the unit square, a subnode rectangle ends
\* above y = 1
C19_Witness ==
    /\ SubnodesMade
    /\ \A c \in Cats : \A j \in 1..NumNodes(c) : InUnitSquare(node_details[c][j])
    /\ \E c \in Cats : \E j \in 1..NumNodes(c) :
          \E k \in 1..Len(subnodes[c][j]) :
              subnodes[c][j][k].y + subnodes[c][j][k].height > One

\* the category processed k-th: the anchor, then those left of it from the
\* nearest to the farthest, then those right of it in increasing index
ProcessedAt(k) ==
    IF k = 1 THEN StartCategory
    ELSE IF k <= StartCategory THEN StartCategory - (k - 1)
    ELSE k
\* make_lines has returned without an exception
LinesReturned ==
    \/ pc \in {"make_subnodes", "set_line_color", "plot", "done"}
    \/ pc = "error" /\ err = "KeyError"
    \/ PlotRaised

\* C20: categories are processed in the order anchor, left of the anchor from
\* nearest to farthest, right of the anchor in increasing index, each exactly
\* once; line_y_positions and line_spacing are recorded in that order, and
\* when make_lines has returned (so before make_subnodes runs) each category
\* has exactly one slot mapping and one line_spacing value.
C20_ProcessingOrder ==
    LinesRan =>
        /\ Len(line_y_positions) <= NumCats
        /\ Len(line_spacing) = Len(line_y_positions)
        /\ \A k \in 1..Len(line_y_positions) :
              /\ line_y_positions[k].category = ProcessedAt(k)
              /\ line_spacing[k].category = ProcessedAt(k)
        /\ LinesReturned => Len(line_y_positions) = NumCats

\* make_subnodes is about to run on a chart with categories on both sides of
\* the anchor, two of them on the left; all of them are recorded
C20_Witness ==
    /\ pc = "make_subnodes"
    /\ StartCategory >= 3
    /\ StartCategory < NumCats
    /\ Len(line_y_positions) = NumCats
    /\ line_y_positions[2].category = StartCategory - 1
    /\ line_y_positions[3].category = StartCategory - 2
    /\ line_spacing[NumCats].category = NumCats

\* the segments of line l emitted for category c that satisfy T
SegmentsAt(l, c, T(_)) ==
    {k \in 1..Len(line_segments[l]) :
        /\ line_segments[l][k].name = SegName(c, l)
        /\ T(line_segments[l][k])}
\* p is an endpoint of the straight segment of line l in category c
OnStraight(l, c, p) ==
    \E k \in SegmentsAt(l, c, IsStraight) :
        p \in {line_segments[l][k].start, line_segments[l][k].finish}

NodeTop(c, j) == node_details[c][j].y + node_details[c][j].height

\* C22: within each category the nodes are stacked top-down in the declared
\* order of node_data: the first declared node's top is at y = 1 and every
\* later node's top equals the bottom of the node declared just before it
\* minus node_separation (so it is not above that bottom), whatever the flow
\* counts.
C22_StackedInDeclaredOrder ==
    NodesMade =>
        \A c \in Cats :
            /\ NodeTop(c, 1) = One
            /\ \A j \in 1..(NumNodes(c) - 1) :
                  /\ NodeTop(c, j + 1) = node_details[c][j].y - node_separation
                  /\ NodeTop(c, j + 1) <= node_details[c][j].y

\* three nodes in a category, separated, the later-declared node carrying more
\* lines than the first
C22_Witness ==
    /\ NodesMade
    /\ node_separation > 0
    /\ \E c \in Cats :
          /\ NumNodes(c) >= 3
          /\ NodeCount(c, 1) < NodeCount(c, 3)
          /\ NodeCount(c, 2) = 0
          /\ node_details[c][1].height < node_details[c][3].height
          /\ NodeTop(c, 3) < node_details[c][2].y

\* the lines handed to the slot assigner for category c: all of line_data at
\* the anchor, else those slotted in the category processed before c
HandedOver(c) ==
    IF c = StartCategory THEN LineIds
    ELSE KeySet(SlotsOf(PreviousCategory(c)))
\* the slot ys of category c that belong to lines targeting node j
SlotYsInNode(c, j) ==
    {SlotsOf(c)[k].y : k \in {i \in 1..Len(SlotsOf(c)) :
                                 TargetNode(SlotsOf(c)[i].id, c) = j}}

\* C23: line slots are centered in their node - in every category, for every
\* node that is handed at least one line, all of them receiving a slot, the
\* midpoint between the node's topmost and bottommost slot is the node's
\* vertical midpoint y + height/2; a single line in a single-node category is
\* slotted at 0.5.
C23_SlotsCentered ==
    LinesRan =>
        \A c \in Cats :
            HasCategory(line_y_positions, c) =>
                /\ \A j \in 1..NumNodes(c) :
                      LET mine == {l \in HandedOver(c) : TargetNode(l, c) = j}
                          ys == SlotYsInNode(c, j)
                      IN  (mine # {} /\ mine \subseteq KeySet(SlotsOf(c))) =>
                              Maximum(ys) + Min(ys)
                                  = 2 * node_details[c][j].y
                                        + node_details[c][j].height
                /\ (NumNodes(c) = 1 /\ Len(SlotsOf(c)) = 1 /\ NumLines = 1) =>
                      2 * SlotsOf(c)[1].y = One

\* a node with two of three lines, both slotted, around its midpoint, which is
\* not the midpoint of the unit height
C23_Witness ==
    /\ LinesReturned
    /\ \E c \in Cats : \E j \in 1..NumNodes(c) :
          LET ys == SlotYsInNode(c, j)
          IN  /\ Cardinality(ys) = 2
              /\ Maximum(ys) + Min(ys)
                    = 2 * node_details[c][j].y + node_details[c][j].height
              /\ Maximum(ys) + Min(ys) # One

C25_SegmentsImmutable ==
    [][(pc \in {"make_subnodes", "set_line_color", "plot"})
          => (line_segments' = line_segments)]_vars

\* the constructor has returned and a connector of the rightward sweep, emitted
\* from the new category towards the anchor, now starts at the anchor's edge
C25_Witness ==
    /\ Returned
    /\ StartCategory < NumCats
    /\ \E l \in LineIds :
          \E k \in SegmentsAt(l, StartCategory + 1, IsCurved) :
              /\ line_segments[l][k].start
                    = <<GetLineXPosition(StartCategory)[2], YOf(StartCategory, l)>>
              /\ line_segments[l][k].finish
                    = <<GetLineXPosition(StartCategory + 1)[1],
                        YOf(StartCategory + 1, l)>>
              /\ YOf(StartCategory, l) # YOf(StartCategory + 1, l)

\* line l gets no slot in category c even when handed over: its node declares
\* subnodes and the line carries no tag, or a tag the node does not declare
DropPoint(l, c) == HasSubnodes(c, TargetNode(l, c)) /\ ~DeclaredSubnode(l, c)
\* no drop point of l at the anchor nor on the way from the anchor to c
Kept(l, c) ==
    /\ ~DropPoint(l, StartCategory)
    /\ c # StartCategory => \A d \in SweepUpTo(c) : ~DropPoint(l, d)
\* line l has its slot and its segments of category c: one straight, and one
\* connector unless c is the anchor
LaidOutAt(l, c) ==
    /\ Slotted(c, l)
    /\ Cardinality(SegmentsAt(l, c, IsStraight)) = 1
    /\ Cardinality(SegmentsAt(l, c, IsCurved)) = IF c = StartCategory THEN 0 ELSE 1
AbsentAt(l, c) ==
    /\ ~Slotted(c, l)
    /\ SegmentsAt(l, c, IsStraight) = {}
    /\ SegmentsAt(l, c, IsCurved) = {}

C27_SlotsTopToBottom ==
    LinesRan =>
        \A i \in 1..Len(line_y_positions) :
            LET slots == line_y_positions[i].slots
            IN  \A k \in 1..(Len(slots) - 1) : slots[k].y > slots[k + 1].y

\* at the anchor the lowest slot of the first node lies below the highest slot
\* of the second node, which follows it in the mapping
C27_Witness ==
    /\ LinesRan
    /\ HasCategory(line_y_positions, StartCategory)
    /\ LET slots == SlotsOf(StartCategory)
       IN  \E k \in 1..(Len(slots) - 1) :
              /\ TargetNode(slots[k].id, StartCategory) = 1
              /\ TargetNode(slots[k + 1].id, StartCategory) = 2
              /\ slots[k].y < slots[k + 1].y

\* what make_lines computed for category c: its slot mapping (empty when the
\* category was not reached) and every line's segments named after c, each
\* taken in left-to-right orientation
ComputedFor(slots, segments, c) ==
    [slots |-> IF HasCategory(slots, c) THEN EntryOf(slots, c).slots ELSE <<>>,
     segments |->
        [l \in DOMAIN segments |->
            LET Here(seg) == seg.name.category = c /\ seg.name.line = l
                found == SelectSeq(segments[l], Here)
            IN  [k \in 1..Len(found) |-> GetLinePoints(found[k])]]]
\* the second construction is past make_lines
SecondLinesRan == run = 2 /\ LinesRan
\* the category in which the second input differs from the first
VariedCategory == previous[8]
\* the categories on the anchor's other side, the anchor included
OtherSide ==
    IF VariedCategory < StartCategory
    THEN StartCategory..NumCats
    ELSE 1..StartCategory
\* both constructions computed the same for every category of the other side
SameOnOtherSide ==
    \A c \in OtherSide :
        ComputedFor(line_y_positions, line_segments, c)
            = ComputedFor(previous[3], previous[2], c)

WithRectangle(c, j) ==
    {k \in 1..Len(subnodes[c][j]) : subnodes[c][j][k].y # None}
LowerEdge(sn) == sn.y
UpperEdge(sn) == sn.y + sn.height

LegacyTarget(l, c) == line_data[l][c].node

\* variant: the gaps between the nodes are left out of the space taken
LegacyYSpaceTakenWithoutGaps(c) == NumNodes(c) * node_min_y_extend

LegacyYSpaceTakenByDefault(c) ==
    NumNodes(c) * node_min_y_extend
        + (NumNodes(c) - 1) * straight_line_outside_node

LegacyNodeCount(c, j) == Cardinality({l \in LineIds : LegacyTarget(l, c) = j})
LegacyTotalCount(c) == Sum([j \in 1..NumNodes(c) |-> LegacyNodeCount(c, j)])

\* the loop over node_counts from node j on, y_position being the running top
RECURSIVE LegacyPlaceNodes(_, _, _)
LegacyPlaceNodes(c, j, y_position) ==
    IF j > NumNodes(c) THEN <<>>
    ELSE LET total_count == LegacyTotalCount(c)
             y_space_distributed == One - LegacyYSpaceTakenByDefault(c)
             height == IF total_count > 0
                       THEN node_min_y_extend
                            + Div(LegacyNodeCount(c, j) * y_space_distributed,
                                  total_count)
                       ELSE 0
             x_spacing == Div(One - nodes_x_share, NumCats - 1)
             node_width == Div(nodes_x_share, NumCats)
         IN  <<[x |-> (c - 1) * (node_width + x_spacing), width |-> node_width,
                y |-> y_position - height, height |-> height]>>
             \o LegacyPlaceNodes(c, j + 1,
                                 y_position - (height + straight_line_outside_node))

LegacyNodeDetails == [c \in Cats |-> LegacyPlaceNodes(c, 1, One)]

\* _get_line_x_position on the node details nd
LegacyGetLineXPosition(nd, c) ==
    LET left_node_x == nd[c][1].x
        right_node_x == nd[c][1].x + nd[c][1].width
    IN  IF c = 1
        THEN IF extend_lines_into_outside_nodes
             THEN <<Div(left_node_x + right_node_x, 2), right_node_x>>
             ELSE <<right_node_x, right_node_x>>
        ELSE IF c = NumCats
        THEN IF extend_lines_into_outside_nodes
             THEN <<left_node_x, Div(left_node_x + right_node_x, 2)>>
             ELSE <<left_node_x, left_node_x>>
        ELSE <<left_node_x - Div(straight_line_outside_node, 2),
               right_node_x + Div(straight_line_outside_node, 2)>>

\* _get_line_y_positions: the loop over the nodes of category c from node j on
RECURSIVE LegacySlotsFromNode(_, _, _, _)
LegacySlotsFromNode(nd, ordered, c, j) ==
    IF j > Len(nd[c]) THEN <<>>
    ELSE LET total_node_space == Sum([i \in 1..Len(nd[c]) |-> nd[c][i].height])
             line_spacing_c == Div(TimesRatio(total_node_space, LineSpaceShare),
                                   Len(ordered))
             Mine(l) == LegacyTarget(l, c) = j
             mine == SelectSeq(ordered, Mine)
             node_y_top == nd[c][j].y + nd[c][j].height
             offset_borders == Div(nd[c][j].height - line_spacing_c * Len(mine), 2)
             line_y == node_y_top - offset_borders - Div(line_spacing_c, 2)
         IN  [k \in 1..Len(mine) |->
                 [id |-> mine[k], y |-> line_y - (k - 1) * line_spacing_c]]
             \o LegacySlotsFromNode(nd, ordered, c, j + 1)

\* extend_line_segments: the loop over `categories`; st holds line_segments,
\* the slot mappings returned so far and the loop variables
RECURSIVE LegacyExtendLineSegments(_, _, _, _)
LegacyExtendLineSegments(nd, st, categories, direction) ==
    IF categories = <<>> \/ st.err # "" THEN st
    ELSE LET c == Head(categories)
             xs == LegacyGetLineXPosition(nd, c)
             connection_x == IF direction = "left" THEN xs[2] ELSE xs[1]
             new_starting_x == IF direction = "left" THEN xs[1] ELSE xs[2]
             ordered == [k \in 1..Len(st.y_positions) |-> st.y_positions[k].id]
         IN  IF ordered = <<>>
             THEN [st EXCEPT !.err = "IndexError"]
             ELSE LET y_positions_new == LegacySlotsFromNode(nd, ordered, c, 1)
                      Y(slots, l) ==
                          slots[CHOOSE k \in 1..Len(slots) : slots[k].id = l].y
                      grown ==
                          [l \in LineIds |->
                              IF \E k \in 1..Len(y_positions_new) :
                                     y_positions_new[k].id = l
                              THEN st.line_segments[l]
                                   \o <<StraightLine(
                                          <<xs[1], Y(y_positions_new, l)>>,
                                          <<xs[2], Y(y_positions_new, l)>>,
                                          SegName(c, l)),
                                        CurvedLine(
                                          <<connection_x, Y(y_positions_new, l)>>,
                                          <<st.starting_x, Y(st.y_positions, l)>>,
                                          SegName(c, l))>>
                              ELSE st.line_segments[l]]
                  IN  LegacyExtendLineSegments(
                          nd,
                          [st EXCEPT
                             !.line_segments = grown,
                             !.line_y_positions =
                                 Append(@, [category |-> c,
                                            slots |-> y_positions_new]),
                             !.starting_x = new_starting_x,
                             !.y_positions = y_positions_new],
                          Tail(categories), direction)

\* make_nodes and make_lines of the diagram; line_y_positions lists the slot
\* mappings _get_line_y_positions returned, in call order
LegacyDiagram ==
    LET nd == LegacyNodeDetails
        start_category == IF sorted_category # 0 THEN sorted_category ELSE 1
        xs == LegacyGetLineXPosition(nd, start_category)
        Truthy(l) == LegacyTarget(l, start_category) # 0
        ordered == SelectSeq([l \in 1..NumLines |-> l], Truthy)
        empty == [node_details |-> nd,
                  line_segments |-> [l \in LineIds |-> <<>>],
                  line_y_positions |-> <<>>,
                  starting_x |-> xs[1],
                  y_positions |-> <<>>,
                  err |-> ""]
    IN  IF ordered = <<>> THEN [empty EXCEPT !.err = "IndexError"]
        ELSE LET start_node_y_positions ==
                     LegacySlotsFromNode(nd, ordered, start_category, 1)
                 started ==
                     [empty EXCEPT
                        !.line_y_positions =
                            <<[category |-> start_category,
                               slots |-> start_node_y_positions]>>,
                        !.line_segments =
                            [l \in LineIds |->
                                LET At(slot) == slot.id = l
                                    mine == SelectSeq(start_node_y_positions, At)
                                IN  [k \in 1..Len(mine) |->
                                        StraightLine(<<xs[1], mine[k].y>>,
                                                     <<xs[2], mine[k].y>>,
                                                     SegName(start_category, l))]],
                        !.y_positions = start_node_y_positions]
                 left_categories ==
                     [i \in 1..(start_category - 1) |-> start_category - i]
                 right_categories ==
                     [i \in 1..(NumCats - start_category) |-> start_category + i]
                 left == LegacyExtendLineSegments(nd, started, left_categories,
                                                  "left")
             IN  LegacyExtendLineSegments(
                     nd,
                     [left EXCEPT !.starting_x = xs[2],
                                  !.y_positions = start_node_y_positions],
                     right_categories, "right")

\* the diagram's segments once plot has sampled every line
LegacyPlotted(segments) ==
    [l \in DOMAIN segments |->
        [k \in 1..Len(segments[l]) |-> GetLinePoints(segments[l][k])]]

\* the inputs on which the chart and the diagram are compared
ComparableInput ==
    /\ \A c \in Cats : \A j \in 1..NumNodes(c) : ~HasSubnodes(c, j)
    /\ ~plot_id
    /\ StartCategory > 1
    /\ StartCategory < NumCats
    /\ node_separation = straight_line_outside_node

\* C30: for inputs without subnodes, with plot_id off, an anchor that is
\* neither the first nor the last category and node_separation equal to
\* straight_line_outside_node, AlluvialChart and the legacy AlluvialDiagram
\* compute identical node rectangles, identical slot ys per category and
\* identical segment endpoints for every line (and raise alike).
C30_SameAsLegacy ==
    (ComparableInput /\ pc # "make_nodes") =>
        LET legacy == LegacyDiagram
        IN  /\ node_details = legacy.node_details
            /\ LinesRan =>
                  /\ line_y_positions = legacy.line_y_positions
                  /\ (legacy.err = "") = LinesReturned
                  /\ (pc = "error") => (err = legacy.err)
            /\ pc \in {"make_subnodes", "set_line_color", "plot"} =>
                  line_segments = legacy.line_segments
            /\ Returned => line_segments = LegacyPlotted(legacy.line_segments)

\* a returned chart with several nodes in the anchor category, lines through
\* two of them, and a positive node separation
C30_Witness ==
    /\ ComparableInput
    /\ Returned
    /\ node_separation > 0
    /\ NumNodes(StartCategory) > 2
    /\ NumLines > 1
    /\ \E a, b \in LineIds :
          TargetNode(a, StartCategory) < TargetNode(b, StartCategory)
    /\ \A l \in LineIds : Len(line_segments[l]) = 2 * NumCats - 1

====
